---- MODULE Spec2Model ----
(***************************************************************************)
(* vmwarelog: pull VMware vCenter events, page by page, order them by      *)
(* creation time and append them to a file.  The module models             *)
(*   retry()         src/src/main.py 24-62                                 *)
(*   get_events()    src/src/main.py 65-80 (same code in src/main.py 76-91)*)
(*   get_collector() src/src/main.py 83-95                                 *)
(*   main()          src/src/main.py 112-235                               *)
(*   __main__        src/src/main.py 238-261                               *)
(* Three specifications share the actions: SpecRetry runs retry() alone on *)
(* arbitrary arguments, SpecEvents runs get_events() alone on an arbitrary *)
(* cursor, and Spec runs the whole program.                                *)
(***************************************************************************)
EXTENDS Integers, Sequences, FiniteSets, TLC

VARIABLES
    pc,                   \* position of the single thread
    exc,                  \* exception in flight: [kind, from]
    exitCode,             \* process exit code, -1 while running
    interrupted,          \* a KeyboardInterrupt was delivered to the process
    func,                 \* retry(): what is being retried
    ex_type,              \* retry(): ex_type
    limit,                \* retry(): limit
    attempt,              \* retry(): attempt
    wait_ms,              \* retry(): wait_ms (unbounded int, as limbs)
    wait_increase_ratio,  \* retry(): wait_increase_ratio
    hist,                 \* outcomes of the invocations of func(), in order
    sleeps,               \* wait_ms of every time.sleep() call, in order
    retry_result,         \* retry(): returned value (number of the invocation)
    smartConnectCalls,    \* SmartConnect calls issued
    createCollectorCalls, \* CreateCollector calls issued
    readNextCalls,        \* ReadNext calls issued
    pagesRead,            \* pages the ReadNext calls returned, in order
    events,               \* get_events(): events
    sorted_events,        \* get_events(): returned list
    outputDirExists,      \* the parent folder of the output path exists
    fileOpened,           \* open(output, "a+") succeeded
    written               \* events written to the output file, in order

vars == <<pc, exc, exitCode, interrupted, func, ex_type, limit, attempt,
          wait_ms, wait_increase_ratio, hist, sleeps, retry_result,
          smartConnectCalls, createCollectorCalls, readNextCalls, pagesRead,
          events, sorted_events, outputDirExists, fileOpened, written>>

retryVars == <<func, ex_type, limit, attempt, wait_ms, wait_increase_ratio,
               hist, sleeps, retry_result>>
gatewayVars == <<smartConnectCalls, createCollectorCalls>>
eventVars == <<readNextCalls, pagesRead, events, sorted_events>>
fileVars == <<fileOpened, written>>

(***************************************************************************)
(* Bounds of the model.                                                    *)
(***************************************************************************)
MaxLimit == 3      \* retry alone: limit ranges over 0..MaxLimit
MaxWait == 2       \* retry alone: wait_ms ranges over 0..MaxWait
MaxRatio == 2      \* retry alone: wait_increase_ratio ranges over 0..MaxRatio
MaxPages == 2      \* a cursor returns at most MaxPages non-empty pages
MaxPageLen == 2    \* events per page in the model
MaxTime == 2       \* createdTime ranges over 1..MaxTime

\* invocations of func() explored when limit = 0 (unlimited)
MaxCalls == MaxLimit + 1

(***************************************************************************)
(* Program constants.                                                      *)
(***************************************************************************)
PAGE_SIZE == 1000
MainLimit == 5
MainWaitMs == 10000
MainWaitIncreaseRatio == 10000

(***************************************************************************)
(* Python ints are unbounded; wait_ms reaches 10^20 in main().  A value is *)
(* kept as its limbs in base 10^4, least significant first, no leading     *)
(* zero limb (zero is the empty sequence).                                 *)
(***************************************************************************)
Base == 100 * 100

RECURSIVE BigFromInt(_)
BigFromInt(n) == IF n = 0 THEN <<>> ELSE <<n % Base>> \o BigFromInt(n \div Base)

RECURSIVE BigMulCarry(_, _, _)
BigMulCarry(a, r, c) ==
    IF a = <<>>
    THEN BigFromInt(c)
    ELSE LET p == Head(a) * r + c
         IN  <<p % Base>> \o BigMulCarry(Tail(a), r, p \div Base)

\* a * r, for a non-negative machine integer r
BigMul(a, r) == IF r = 0 THEN <<>> ELSE BigMulCarry(a, r, 0)

RECURSIVE BigLeqSameLen(_, _)
BigLeqSameLen(a, b) ==
    IF a = <<>> THEN TRUE
    ELSE LET n == Len(a)
         IN  IF a[n] # b[n] THEN a[n] < b[n]
             ELSE BigLeqSameLen(SubSeq(a, 1, n - 1), SubSeq(b, 1, n - 1))

BigLeq(a, b) ==
    IF Len(a) # Len(b) THEN Len(a) < Len(b) ELSE BigLeqSameLen(a, b)

(***************************************************************************)
(* Exceptions.  KeyboardInterrupt derives from BaseException, the others   *)
(* from Exception.                                                         *)
(***************************************************************************)
NoExc == [kind |-> "none", from |-> 0]
ExceptionKinds == {"ConnectionError", "TypeError", "OSError", "Exception"}

\* variant: every exception counts as an instance of ex_type
IsInstanceAny(kind, type) == TRUE

\* isinstance(ex, ex_type) for an ex caught by "except Exception"
IsInstance(kind, type) == type = "Exception" \/ kind = type

\* the __main__ handlers: the exit code for an exception leaving main()
ExitCodeFor(kind) == IF kind = "KeyboardInterrupt" THEN 0 ELSE 1

(***************************************************************************)
(* retry()                                                                 *)
(***************************************************************************)
\* what one invocation of func() can do
FuncOutcomes(f) ==
    IF f = "callable"
    THEN {"ok", "ConnectionError", "TypeError", "KeyboardInterrupt"}
    \* main() passes the object get_collector() returned; what calling it
    \* does is up to pyVmomi: it returns, raises (a TypeError for an object
    \* that is not callable) or is interrupted
    ELSE {"ok", "TypeError", "KeyboardInterrupt"}

\* variant: 0 < limit < attempt
ExhaustedOffByOne(lim, att) == 0 < lim /\ lim < att

\* 0 < limit <= attempt
Exhausted(lim, att) == 0 < lim /\ lim <= att

\* variant: wait_ms = wait_increase_ratio
NextWaitAssign(w, ratio) == BigFromInt(ratio)

\* wait_ms *= wait_increase_ratio
NextWait(w, ratio) == BigMul(w, ratio)

\* "raise ex" in the except block: the exception of the current invocation
RaisedEx(kind, h) == [kind |-> kind, from |-> Len(h)]

\* try: return func() / except Exception as ex: ... up to time.sleep
RetryCall ==
    /\ pc = "retry_call"
    /\ limit = 0 => Len(hist) < MaxCalls
    /\ \E outcome \in FuncOutcomes(func) :
         LET h == Append(hist, outcome) IN
         /\ hist' = h
         /\ IF outcome = "ok"
            THEN /\ retry_result' = Len(h)
                 /\ pc' = "retry_returned"
                 /\ UNCHANGED <<exc, attempt, interrupted>>
            ELSE IF outcome = "KeyboardInterrupt"
            THEN /\ exc' = [kind |-> outcome, from |-> Len(h)]
                 /\ interrupted' = TRUE
                 /\ pc' = "raised"
                 /\ UNCHANGED <<retry_result, attempt>>
            ELSE IF ~IsInstance(outcome, ex_type) \/ Exhausted(limit, attempt)
            THEN /\ exc' = RaisedEx(outcome, h)
                 /\ pc' = "raised"
                 /\ UNCHANGED <<retry_result, attempt, interrupted>>
            ELSE /\ attempt' = attempt + 1
                 /\ pc' = "retry_sleep"
                 /\ UNCHANGED <<exc, retry_result, interrupted>>
    /\ UNCHANGED <<exitCode, func, ex_type, limit, wait_ms, wait_increase_ratio,
                   sleeps, gatewayVars, eventVars, outputDirExists, fileVars>>

\* time.sleep(wait_ms / 1000); wait_ms *= wait_increase_ratio
RetrySleep ==
    /\ pc = "retry_sleep"
    /\ sleeps' = Append(sleeps, wait_ms)
    /\ \E outcome \in {"ok", "KeyboardInterrupt"} :
         IF outcome = "ok"
         THEN /\ wait_ms' = NextWait(wait_ms, wait_increase_ratio)
              /\ pc' = "retry_call"
              /\ UNCHANGED <<exc, interrupted>>
         ELSE /\ exc' = [kind |-> outcome, from |-> 0]
              /\ interrupted' = TRUE
              /\ pc' = "raised"
              /\ UNCHANGED wait_ms
    /\ UNCHANGED <<exitCode, func, ex_type, limit, attempt, wait_increase_ratio,
                   hist, retry_result, gatewayVars, eventVars, outputDirExists,
                   fileVars>>

\* the state shared by every specification before anything ran
Idle ==
    /\ exc = NoExc
    /\ exitCode = -1
    /\ interrupted = FALSE
    /\ attempt = 1
    /\ hist = <<>>
    /\ sleeps = <<>>
    /\ retry_result = 0
    /\ smartConnectCalls = 0
    /\ createCollectorCalls = 0
    /\ readNextCalls = 0
    /\ pagesRead = <<>>
    /\ events = <<>>
    /\ sorted_events = <<>>
    /\ fileOpened = FALSE
    /\ written = <<>>

\* retry(func, ex_type, limit, wait_ms, wait_increase_ratio) on any arguments
\* for which every time.sleep() argument is valid (wait_ms, ratio >= 0)
InitRetry ==
    /\ Idle
    /\ pc = "retry_call"
    /\ func = "callable"
    /\ ex_type \in {"Exception", "ConnectionError"}
    /\ limit \in 0..MaxLimit
    /\ wait_ms \in {BigFromInt(w) : w \in 0..MaxWait}
    /\ wait_increase_ratio \in 0..MaxRatio
    /\ outputDirExists = TRUE

NextRetry == RetryCall \/ RetrySleep

SpecRetry == InitRetry /\ [][NextRetry]_vars

(***************************************************************************)
(* get_events()                                                            *)
(***************************************************************************)
\* the pages one ReadNext(maxCount=PAGE_SIZE) call can return, as the
\* createdTime of each event; a cursor that already returned MaxPages
\* non-empty pages is exhausted
TimeSeqs ==
    UNION {[1..n -> 1..MaxTime] : n \in {m \in 0..MaxPageLen : m <= PAGE_SIZE}}

ReadNextPages(read) == IF Len(read) < MaxPages THEN TimeSeqs ELSE {<<>>}

\* the events of page number p: an event is known by its page and position
PageEvents(p, times) ==
    [i \in 1..Len(times) |-> [page |-> p, idx |-> i, createdTime |-> times[i]]]

\* variant: events = events_in_page
ExtendReplace(evs, events_in_page) == events_in_page

\* events.extend(events_in_page)
Extend(evs, events_in_page) == evs \o events_in_page

\* variant: an event goes ahead of the events of equal key
KeyLess(a, e) == a.createdTime < e.createdTime

\* sorted(events, key=lambda x: x.createdTime): ascending and stable, an
\* event goes behind every event whose key is not greater
KeyNotGreater(a, e) == a.createdTime <= e.createdTime

RECURSIVE InsertByKey(_, _)
InsertByKey(s, e) ==
    IF s = <<>> THEN <<e>>
    ELSE IF KeyNotGreater(Head(s), e)
         THEN <<Head(s)>> \o InsertByKey(Tail(s), e)
         ELSE <<e>> \o s

RECURSIVE SortFrom(_, _)
SortFrom(done, rest) ==
    IF rest = <<>> THEN done
    ELSE SortFrom(InsertByKey(done, Head(rest)), Tail(rest))

sorted(evs) == SortFrom(<<>>, evs)

\* variant: the exception is swallowed and the events read so far returned
ReadFailedPartial(kind) ==
    /\ sorted_events' = sorted(events)
    /\ pc' = "events_returned"
    /\ UNCHANGED <<exc, interrupted, pagesRead, events>>

\* what get_events() does with an exception of ReadNext: nothing, it
\* propagates and no list is returned
ReadFailed(kind) ==
    /\ exc' = [kind |-> kind, from |-> 0]
    /\ interrupted' = (interrupted \/ kind = "KeyboardInterrupt")
    /\ pc' = "raised"
    /\ UNCHANGED <<pagesRead, events, sorted_events>>

\* one turn of the while loop: ReadNext, then break and return sorted(events)
\* or extend
GetEventsRead ==
    /\ pc = "get_events"
    /\ readNextCalls' = readNextCalls + 1
    /\ \/ \E times \in ReadNextPages(pagesRead) :
            LET events_in_page == PageEvents(Len(pagesRead) + 1, times) IN
            /\ pagesRead' = Append(pagesRead, events_in_page)
            /\ IF Len(events_in_page) = 0
               THEN /\ sorted_events' = sorted(events)
                    /\ pc' = "events_returned"
                    /\ UNCHANGED events
               ELSE /\ events' = Extend(events, events_in_page)
                    /\ UNCHANGED <<pc, sorted_events>>
            /\ UNCHANGED <<exc, interrupted>>
       \/ \E kind \in {"ConnectionError", "KeyboardInterrupt"} : ReadFailed(kind)
    /\ UNCHANGED <<exitCode, retryVars, gatewayVars, outputDirExists, fileVars>>

InitEvents ==
    /\ Idle
    /\ pc = "get_events"
    /\ func = "callable"
    /\ ex_type = "Exception"
    /\ limit = 0
    /\ wait_ms = <<>>
    /\ wait_increase_ratio = 0
    /\ outputDirExists = TRUE

NextEvents == GetEventsRead

SpecEvents == InitEvents /\ [][NextEvents]_vars

(***************************************************************************)
(* main() and the __main__ block                                           *)
(***************************************************************************)
\* an exception leaves the current statement of main()
Raise(kind) ==
    /\ exc' = [kind |-> kind, from |-> 0]
    /\ interrupted' = (interrupted \/ kind = "KeyboardInterrupt")
    /\ pc' = "raised"

\* logging.basicConfig(...), 'Starting', parser.parse_args(): the runs
\* modelled are those whose command line argparse accepts
ParseArgs ==
    /\ pc = "parse"
    /\ pc' = "resolve"
    /\ UNCHANGED <<exc, exitCode, interrupted, retryVars, gatewayVars, eventVars,
                   outputDirExists, fileVars>>

\* try: getfqdn, gethostbyname / except: raise Exception(...).  The bare
\* except also catches a KeyboardInterrupt and replaces it by an Exception
ResolveHost ==
    /\ pc = "resolve"
    /\ \E outcome \in {"ok", "OSError", "KeyboardInterrupt"} :
         IF outcome = "ok"
         THEN /\ pc' = "prompt"
              /\ UNCHANGED <<exc, interrupted>>
         ELSE /\ exc' = [kind |-> "Exception", from |-> 0]
              /\ interrupted' = (interrupted \/ outcome = "KeyboardInterrupt")
              /\ pc' = "raised"
    /\ UNCHANGED <<exitCode, retryVars, gatewayVars, eventVars, outputDirExists,
                   fileVars>>

\* port, output = abspath(output) (its folder is not looked at: the check is
\* commented out), input(), getpass()
Prompt ==
    /\ pc = "prompt"
    /\ \/ /\ pc' = "get_collector"
          /\ UNCHANGED <<exc, interrupted>>
       \/ \E kind \in {"Exception", "KeyboardInterrupt"} : Raise(kind)
    /\ UNCHANGED <<exitCode, retryVars, gatewayVars, eventVars, outputDirExists,
                   fileVars>>

\* retry(func=get_collector(...), ex_type=Exception, limit=5, wait_ms=10000,
\* wait_increase_ratio=10000): the argument get_collector(...) is evaluated
\* first, once: SmartConnect, then CreateCollector; an exception of either
\* leaves main() before retry() is entered.  Then retry() starts, attempt = 1
GetCollector ==
    /\ pc = "get_collector"
    /\ smartConnectCalls' = smartConnectCalls + 1
    /\ \E outcome \in {"ok", "SmartConnect", "CreateCollector", "KeyboardInterrupt"} :
         /\ createCollectorCalls' =
                IF outcome \in {"ok", "CreateCollector"}
                THEN createCollectorCalls + 1 ELSE createCollectorCalls
         /\ IF outcome = "ok"
            THEN /\ func' = "event_collector"
                 /\ ex_type' = "Exception"
                 /\ limit' = MainLimit
                 /\ wait_ms' = BigFromInt(MainWaitMs)
                 /\ wait_increase_ratio' = MainWaitIncreaseRatio
                 /\ attempt' = 1
                 /\ pc' = "retry_call"
                 /\ UNCHANGED <<exc, interrupted>>
            ELSE /\ Raise(IF outcome = "KeyboardInterrupt"
                          THEN outcome ELSE "ConnectionError")
                 /\ UNCHANGED <<func, ex_type, limit, wait_ms,
                                wait_increase_ratio, attempt>>
    /\ UNCHANGED <<exitCode, hist, sleeps, retry_result, eventVars,
                   outputDirExists, fileVars>>

\* retry() returned: "Connected.", "Querying events...", get_events() is called
Connected ==
    /\ pc = "retry_returned"
    /\ pc' = "get_events"
    /\ UNCHANGED <<exc, exitCode, interrupted, retryVars, gatewayVars, eventVars,
                   outputDirExists, fileVars>>

\* get_events() returned: with open(output, mode="a+") as vcenter_logs
OpenOutput ==
    /\ pc = "events_returned"
    /\ \/ /\ outputDirExists
          /\ fileOpened' = TRUE
          /\ pc' = "write"
          /\ UNCHANGED <<exc, interrupted>>
       \/ /\ Raise("OSError")      \* no such folder, or not writable
          /\ UNCHANGED fileOpened
    /\ UNCHANGED <<exitCode, retryVars, gatewayVars, eventVars, outputDirExists,
                   written>>

\* the event's fullFormattedMessage, known by the event
Message(event) == [page |-> event.page, idx |-> event.idx]

\* for _, event in enumerate(events): vcenter_logs.write(...), the whole loop;
\* a write that fails (OSError) or is interrupted leaves main(), the failure
\* being taken at the first write
WriteEvents ==
    /\ pc = "write"
    /\ \/ /\ written' = [i \in 1..Len(sorted_events) |-> Message(sorted_events[i])]
          /\ pc' = "written"
          /\ UNCHANGED <<exc, interrupted>>
       \/ /\ \E kind \in {"OSError", "KeyboardInterrupt"} : Raise(kind)
          /\ UNCHANGED written
    /\ UNCHANGED <<exitCode, retryVars, gatewayVars, eventVars, outputDirExists,
                   fileOpened>>

\* "Log collection completed!", main() returns, 'Exiting.': exit code 0
MainReturns ==
    /\ pc = "written"
    /\ pc' = "exited"
    /\ exitCode' = 0
    /\ UNCHANGED <<exc, interrupted, retryVars, gatewayVars, eventVars,
                   outputDirExists, fileVars>>

\* except KeyboardInterrupt: os._exit(0) / except Exception: os._exit(1)
ExitHandler ==
    /\ pc = "raised"
    /\ pc' = "exited"
    /\ exitCode' = ExitCodeFor(exc.kind)
    /\ UNCHANGED <<exc, interrupted, retryVars, gatewayVars, eventVars,
                   outputDirExists, fileVars>>

Init ==
    /\ Idle
    /\ pc = "parse"
    /\ func = "event_collector"
    /\ ex_type = "Exception"
    /\ limit = 0
    /\ wait_ms = <<>>
    /\ wait_increase_ratio = 0
    /\ outputDirExists \in BOOLEAN

Next ==
    \/ ParseArgs
    \/ ResolveHost
    \/ Prompt
    \/ GetCollector
    \/ RetryCall
    \/ RetrySleep
    \/ Connected
    \/ GetEventsRead
    \/ OpenOutput
    \/ WriteEvents
    \/ MainReturns
    \/ ExitHandler

Spec == Init /\ [][Next]_vars

(***************************************************************************)
(* Properties                                                              *)
(***************************************************************************)
Last(s) == s[Len(s)]
Front(s) == SubSeq(s, 1, Len(s) - 1)

RECURSIVE Flatten(_)
Flatten(pages) == IF pages = <<>> THEN <<>> ELSE Head(pages) \o Flatten(Tail(pages))

Range(s) == {s[i] : i \in 1..Len(s)}

\* an invocation failed with an error retry() is asked to retry
Retryable(o) == o \in ExceptionKinds /\ (ex_type = "Exception" \/ o = ex_type)
\* an invocation failed with an error that is not an instance of ex_type
NotRetryable(o) == o \in ExceptionKinds /\ ex_type # "Exception" /\ o # ex_type

AllRetryable(h) == \A i \in 1..Len(h) : Retryable(h[i])
FailsThenSucceeds(h) == h # <<>> /\ Last(h) = "ok" /\ AllRetryable(Front(h))
NonDecreasing(s) == \A i \in 1..(Len(s) - 1) : BigLeq(s[i], s[i + 1])
Interrupted == exc.kind = "KeyboardInterrupt"

\* C1: get_events accumulates exactly the concatenation of the non-empty
\* pages ReadNext returned, in order, and stops reading at the first empty
\* page: with k non-empty pages it has issued k+1 ReadNext calls when it
\* returns, and no page follows an empty one.
C1_PaginationConcat ==
    /\ events = Flatten(pagesRead)
    /\ \A i \in 1..Len(pagesRead) :
          pagesRead[i] = <<>> =>
              /\ i = Len(pagesRead)
              /\ pc # "get_events"
              /\ readNextCalls = i
    /\ pc = "events_returned" =>
          /\ pagesRead # <<>>
          /\ Last(pagesRead) = <<>>
          /\ Len(events) = Len(Flatten(Front(pagesRead)))
          /\ readNextCalls = Len(pagesRead)

C1_Witness ==
    /\ pc = "events_returned"
    /\ Len(pagesRead) = 3
    /\ readNextCalls = 3
    /\ Len(events) = 4

\* The retry-then-success property, the sleep delays being required to be
\* non-decreasing for the wait_increase_ratio values in ratios: after n
\* retryable failures with attempts left retry goes on (it sleeps, then
\* invokes func again), and when the next invocation succeeds it returns that
\* result, after n+1 invocations and n sleeps.
C2_RetryThenSuccess(ratios) ==
    LET n == Len(hist) IN
    /\ (hist # <<>> /\ AllRetryable(hist) /\ (limit = 0 \/ limit >= n + 1)) =>
          \/ pc = "retry_sleep" /\ Len(sleeps) = n - 1
          \/ pc = "retry_call" /\ Len(sleeps) = n
          \/ Interrupted /\ exc.from = 0 /\ Len(sleeps) = n
    /\ (FailsThenSucceeds(hist) /\ (limit = 0 \/ limit >= n)) =>
          /\ pc = "retry_returned"
          /\ retry_result = n
          /\ Len(sleeps) = n - 1
          /\ wait_increase_ratio \in ratios => NonDecreasing(sleeps)

C3_ExhaustedRaisesLast ==
    /\ (limit >= 1 /\ AllRetryable(hist) /\ Len(hist) >= limit) =>
          /\ Len(hist) = limit
          /\ pc = "raised"
          /\ exc = [kind |-> hist[limit], from |-> limit]
          /\ Len(sleeps) = limit - 1
    /\ (limit >= 1 /\ AllRetryable(hist) /\ Len(hist) < limit) =>
          exc.kind \in {"none", "KeyboardInterrupt"}

C3_Witness ==
    /\ limit = 3
    /\ pc = "raised"
    /\ Len(hist) = 3
    /\ AllRetryable(hist)
    /\ exc.from = 3
    /\ Len(sleeps) = 2

\* C4: an invocation that fails with an error that is not an instance of
\* ex_type is the last one: retry raises that error, no sleep and no
\* invocation follows (one invocation in all when it is the first).
C4_NonRetryableImmediate ==
    \A i \in 1..Len(hist) :
        NotRetryable(hist[i]) =>
            /\ i = Len(hist)
            /\ pc = "raised"
            /\ exc = [kind |-> hist[i], from |-> i]
            /\ Len(sleeps) = i - 1

C4_Witness ==
    /\ Len(hist) = 2
    /\ Retryable(hist[1])
    /\ NotRetryable(hist[2])
    /\ pc = "raised"
    /\ Len(sleeps) = 1

\* C5 as claimed: a connectivity error of get_collector ends the run only
\* once the attempts are exhausted, get_collector (SmartConnect) having been
\* invoked limit times with a sleep between consecutive invocations.
C5_Claim ==
    (exc.kind = "ConnectionError" /\ readNextCalls = 0) =>
        /\ smartConnectCalls = MainLimit
        /\ Len(sleeps) = MainLimit - 1

\* C6 as claimed: when the folder of the output path does not exist, no
\* gateway call (SmartConnect, CreateCollector, ReadNext) is ever issued.
C6_Claim ==
    ~outputDirExists =>
        /\ smartConnectCalls = 0
        /\ createCollectorCalls = 0
        /\ readNextCalls = 0

\* C7: once a ReadNext call has failed, get_events has returned no list and
\* the run opens no output file and writes no event, whatever was
\* accumulated; the error of ReadNext is what leaves main().
C7_NoPartialPersist ==
    readNextCalls > Len(pagesRead) =>
        /\ pc \in {"raised", "exited"}
        /\ exc.kind \in {"ConnectionError", "KeyboardInterrupt"}
        /\ sorted_events = <<>>
        /\ ~fileOpened
        /\ written = <<>>
        /\ pc = "exited" => exitCode = ExitCodeFor(exc.kind)

C7_Witness ==
    /\ readNextCalls = 3
    /\ Len(pagesRead) = 2
    /\ Len(events) = 4
    /\ exc.kind = "ConnectionError"
    /\ pc = "exited"
    /\ exitCode = 1

\* C8: the list get_events returns is a permutation of the accumulated
\* events, ascending by createdTime, events of equal createdTime in their
\* arrival order; sorting it again gives the same list.
PosIn(s, e) == CHOOSE i \in 1..Len(s) : s[i] = e

C8_SortedStablePermutation ==
    pc = "events_returned" =>
        /\ Len(sorted_events) = Len(events)
        /\ Range(sorted_events) = Range(events)
        /\ Cardinality(Range(sorted_events)) = Len(sorted_events)
        /\ \A i, j \in 1..Len(sorted_events) :
              i < j =>
                 /\ sorted_events[i].createdTime <= sorted_events[j].createdTime
                 /\ sorted_events[i].createdTime = sorted_events[j].createdTime
                       => PosIn(events, sorted_events[i]) < PosIn(events, sorted_events[j])
        /\ sorted(sorted_events) = sorted_events

C8_Witness ==
    /\ pc = "events_returned"
    /\ Len(events) = 4
    /\ sorted_events # events
    /\ sorted_events[1].page = 1
    /\ sorted_events[1].createdTime = sorted_events[2].createdTime
    /\ sorted_events[2].page = 2

\* C9 as claimed: a run ends with exit code 0 when main() completes, with
\* exit code 0 when a KeyboardInterrupt occurred, wherever it occurred, and
\* with exit code 1 when any other error leaves main().
C9_Claim ==
    pc = "exited" =>
        /\ interrupted => exitCode = 0
        /\ exc = NoExc => exitCode = 0
        /\ (~interrupted /\ exc # NoExc) => exitCode = 1

\* C10 as claimed: with the arguments main() passes, cursor acquisition is
\* tried 5 times and the i-th wait is i times 10 seconds.
C10_Claim ==
    /\ \A i \in 1..Len(sleeps) : sleeps[i] = BigFromInt(MainWaitMs * i)
    /\ (exc.kind = "TypeError" /\ pc = "raised") => smartConnectCalls = MainLimit

====
